---- MODULE Spec2Model ----
(***************************************************************************)
(* Test-to-work-item synchronization engine of sbsaa: configuration        *)
(* resolution (config/azure_config.py), the tracking-service client and    *)
(* mapping store (azure_integration/azure_devops_client.py), the pytest     *)
(* lifecycle hooks that drive them (conftest.py) and the batch-creation     *)
(* scripts (setup_all_azure_test_cases.py, setup_azure_integration.py,      *)
(* add_azure_test_cases.py).                                                *)
(*                                                                         *)
(* Specifications: Spec, a test session; SpecConfig, the connection probe   *)
(* under every configuration; SpecStore, two processes over one mapping     *)
(* file; SpecClient, a caller making two client calls; SpecScripts, a       *)
(* batch-creation script; SpecLocalFile, the probe over an unusable local   *)
(* file; SpecHook, the report hook applied to one report.                   *)
(*                                                                         *)
(* Python values are modelled as follows: a dict is a function whose       *)
(* DOMAIN is its key set; an object's dynamic attributes are a dict; None  *)
(* is the string "<None>" where a string is expected and the id 0 where a  *)
(* work item id is expected (both are falsy in Python, as "" and 0 are).   *)
(***************************************************************************)
EXTENDS Integers, Sequences, FiniteSets, TLC

\* ------------------------------------------------------------------ bounds
\* The largest work item id that the mapping file names before the run starts.
MaxId == 2

\* The collected test functions, in file order: the first two of the suite.
\* @azure_work_item(i) decorates the i-th of them.
TestNames == <<"test_home_tab", "test_oulu_search">>
NumTests == Len(TestNames)

\* ------------------------------------------------------------ Python values
None == "<None>"
NoId == 0
EmptyDict == [k \in {} |-> None]

Truthy(v) == v \notin {None, ""}

\* dict.get(key): the value, or None when the key is absent.
Get(d, k) == IF k \in DOMAIN d THEN d[k] ELSE None

\* a.update(b): b's entries over a's.
Update(a, b) ==
    [k \in (DOMAIN a) \cup (DOMAIN b) |-> IF k \in DOMAIN b THEN b[k] ELSE a[k]]

Range(s) == {s[i] : i \in DOMAIN s}

\* ------------------------------------------------------- configuration data
EnvVars == {"AZURE_DEVOPS_ORG_URL", "AZURE_DEVOPS_PROJECT",
            "AZURE_DEVOPS_PAT", "AZURE_DEVOPS_DEFAULT_ASSIGNEE"}

env_mapping ==
    [AZURE_DEVOPS_ORG_URL |-> "organization_url",
     AZURE_DEVOPS_PROJECT |-> "project",
     AZURE_DEVOPS_PAT |-> "personal_access_token",
     AZURE_DEVOPS_DEFAULT_ASSIGNEE |-> "default_assignee"]

LocalKeys == {"personal_access_token", "default_assignee", "organization_url", "project"}

required_fields == <<"organization_url", "project", "personal_access_token">>

\* What an environment variable may hold: unset (os.getenv gives None), set
\* to the empty string, or set to a value.
EnvValues == {None, "", "env_value"}
\* What a key of the local override file may hold.
FileValues == {"", "file_value"}

Envs == [EnvVars -> EnvValues]

\* azure_local.json: absent, present but not parseable, or a flat document
\* over the recognized keys.
LocalFiles ==
    {[status |-> "absent", content |-> EmptyDict],
     [status |-> "malformed", content |-> EmptyDict]}
    \cup {[status |-> "ok", content |-> c] :
            c \in UNION {[K -> FileValues] : K \in SUBSET LocalKeys}}

\* azure_local.json as the except clause of _get_local_config does not
\* expect it.
UnreadableLocalFiles ==
    {[status |-> "undecodable", content |-> EmptyDict],
     [status |-> "not_a_dict", content |-> EmptyDict]}

\* Modules whose import may fail in a deployment: the integration module
\* itself (conftest.py:18-24), the Azure DevOps SDK
\* (azure_devops_client.py:18-25) and azure_config
\* (azure_devops_client.py:36-40).
Modules == {"azure_devops_client", "azure.devops", "azure_config"}

VARIABLES
    env,            \* process environment: EnvVars -> EnvValues
    localFile,      \* config/azure_local.json
    imports,        \* the modules that can be imported
    resolved,       \* outcome of the latest AzureConfig.get_configuration()
    client,         \* outcome of the latest AzureDevOpsClient() construction
    remoteLog,      \* requests sent to the tracking service, in order
    mappingFile,    \* config/test_mapping.json
    funcAttrs,      \* attributes of each test function object
    nodeAttrs,      \* attributes set on each test's pytest node
    pc,             \* where the runner is in the session
    cur,            \* index of the test being run
    pendingReport,  \* the phase report about to be passed to the logreport hook
    ownOutcome,     \* outcome each test's own fixtures and assertions produced
    runnerOutcome,  \* outcome the runner recorded for each test
    escaped,        \* handlers whose exception reached the runner
    log,            \* per test, the messages conftest.py printed
    faults,         \* request kinds the service rejects while the hook runs
    validation,     \* per test, what post-collection validation printed
    reported,       \* per test, the phases whose report the hook has handled
    probe,          \* what the latest test_azure_connection() returned
    mappers,        \* per process, the TestCaseMapper instance it holds
    storeCalls,     \* the two latest mapping store operations, oldest first
    remote,         \* the tracking service's entries: id -> state, history, relations
    apiCalls,       \* the two latest client operations a caller invoked, oldest first
    script          \* the batch-creation script that is running ("" when none is)

cfgVars == <<env, localFile, imports>>
storeVars == <<mappers, storeCalls>>
apiVars == <<remote, apiCalls>>
vars == <<env, localFile, imports, resolved, client, remoteLog, mappingFile,
          funcAttrs, nodeAttrs, pc, cur, pendingReport, ownOutcome, runnerOutcome,
          escaped, log, faults, validation, reported, probe, mappers, storeCalls,
          remote, apiCalls, script>>

\* ------------------------------------------------- AzureConfig (azure_config.py)
_get_public_defaults ==
    [organization_url |-> "https://dev.azure.com/ttapani-solutions",
     project |-> "test-automation-framework",
     default_work_item_type |-> "Test Case",
     default_bug_priority |-> "2",
     default_bug_severity |-> "3 - Medium"]

_get_local_config(file) ==
    IF file.status = "ok" THEN file.content ELSE EmptyDict

\* The exception that leaves lines 37 and 60-74 for a file the except clause
\* of line 71 does not cover: "undecodable", bytes that are not text (reading
\* raises UnicodeDecodeError); "not_a_dict", JSON that is not an object, such
\* as null or a number (config.update of it raises TypeError).
_get_local_config_exc(file) ==
    IF file.status = "undecodable" THEN "UnicodeDecodeError"
    ELSE IF file.status = "not_a_dict" THEN "TypeError"
    ELSE "none"

_get_env_config(e) ==
    LET set == {v \in EnvVars : Truthy(e[v])}
    IN  [k \in {env_mapping[v] : v \in set} |->
            e[CHOOSE v \in set : env_mapping[v] = k]]

\* _validate_config with the credential left out of required_fields.
ValidateConfigWithoutToken(config) ==
    SelectSeq(<<"organization_url", "project">>, LAMBDA field : ~Truthy(Get(config, field)))

\* The fields _validate_config reports as missing, in required_fields order.
_validate_config(config) ==
    SelectSeq(required_fields, LAMBDA field : ~Truthy(Get(config, field)))

\* get_configuration with the two overlays in the wrong order: the local file
\* applied after the environment.
MergedConfigLocalLast(e, file) ==
    Update(Update(Update(EmptyDict, _get_public_defaults), _get_env_config(e)),
           _get_local_config(file))

\* Lines 31-40: defaults, then the local file, then the environment.
MergedConfig(e, file) ==
    Update(Update(Update(EmptyDict, _get_public_defaults), _get_local_config(file)),
           _get_env_config(e))

NotResolved == [status |-> "not_called", config |-> EmptyDict, missing |-> <<>>]

\* get_configuration(): the merged configuration, the ValueError of
\* _validate_config with the fields it lists, or the exception that left the
\* reading of the local file.
get_configuration(e, file) ==
    LET config == MergedConfig(e, file)
        missing_fields == _validate_config(config)
    IN  IF _get_local_config_exc(file) # "none"
        THEN [status |-> _get_local_config_exc(file), config |-> EmptyDict,
              missing |-> <<>>]
        ELSE IF missing_fields # <<>>
        THEN [status |-> "ValueError", config |-> EmptyDict, missing |-> missing_fields]
        ELSE [status |-> "ok", config |-> config, missing |-> <<>>]

\* ------------------------------------------- TestCaseMapper (mapping store)
\* test_mapping.json is one of: absent; "ok", a JSON table; "corrupt", text
\* that is not JSON (json.load raises JSONDecodeError); "undecodable", bytes
\* that are not text in the default encoding (reading raises
\* UnicodeDecodeError, a ValueError that is neither a JSONDecodeError nor an
\* IOError).
\* Line 260: the literal the f-string of add_mapping starts with, as the
\* address and the project it names; a URL is address/project/_workitems/edit/id.
MappingUrlBase ==
    [organization_url |-> "https://dev.azure.com/ttapani-solutions",
     project |-> "test-automation-framework"]

MappingEntry(work_item_id, work_item_type) ==
    [work_item_id |-> work_item_id,
     work_item_type |-> work_item_type,
     azure_url |-> [organization_url |-> MappingUrlBase.organization_url,
                    project |-> MappingUrlBase.project,
                    id |-> work_item_id]]

\* The exception that leaves _load_mappings(): line 243 catches
\* JSONDecodeError and IOError only.
_load_mappings_exc(file) ==
    IF file.status = "undecodable" THEN "UnicodeDecodeError" ELSE "none"

\* _load_mappings(): the file's table; the empty table when the file is
\* absent, or present but not JSON (after a warning).
_load_mappings(file) ==
    IF file.status = "ok" THEN file.table ELSE EmptyDict

\* Line 244: the warning _load_mappings() prints.
_load_mappings_warns(file) == file.status = "corrupt"

NoMapper == [exc |-> "not_constructed", mappings |-> EmptyDict]

\* The processes that hold a TestCaseMapper over the one mapping file.
Writers == {"w1", "w2"}

\* TestCaseMapper(): the exception that leaves the constructor, or the table
\* the instance holds.
TestCaseMapper_init(file) ==
    [exc |-> _load_mappings_exc(file),
     mappings |-> IF _load_mappings_exc(file) = "none" THEN _load_mappings(file)
                  ELSE EmptyDict]

\* _save_mappings() that leaves the file as it is.
SaveMappingsNowhere(mappings, file) == file

\* _save_mappings() that reads the file again and writes its entries under
\* the instance's.
SaveMappingsMerged(mappings, file) ==
    [status |-> "ok", table |-> Update(_load_mappings(file), mappings)]

\* _save_mappings() that does not write over a file load() could not read.
SaveMappingsOverReadableOnly(mappings, file) ==
    IF file.status = "corrupt" THEN file ELSE [status |-> "ok", table |-> mappings]

\* _save_mappings(): the file after open(..., 'w') and json.dump of the
\* instance's table; what the file held before is discarded.
_save_mappings(mappings, file) ==
    [status |-> "ok", table |-> mappings]

\* add_mapping that keeps the entry a test function already has.
AddMappingKeepsFirst(mappings, test_function, work_item_id, work_item_type) ==
    IF test_function \in DOMAIN mappings THEN mappings
    ELSE Update(mappings, [k \in {test_function} |->
                              MappingEntry(work_item_id, work_item_type)])

\* add_mapping(test_function, work_item_id, work_item_type), line 257: the
\* instance's table after the assignment.
add_mapping(mappings, test_function, work_item_id, work_item_type) ==
    Update(mappings, [k \in {test_function} |->
                         MappingEntry(work_item_id, work_item_type)])

\* get_work_item_id(test_function): the entry's id, or None.
get_work_item_id(mappings, test_function) ==
    IF test_function \in DOMAIN mappings
    THEN mappings[test_function].work_item_id
    ELSE NoId

\* get_all_mappings()
get_all_mappings(mappings) == mappings

\* A load that writes an empty table over a file it found missing or could
\* not read.
MappingFileRepairedOnLoad(file) ==
    IF file.status \in {"absent", "corrupt"}
    THEN [status |-> "ok", table |-> EmptyDict]
    ELSE file

\* The mapping file after TestCaseMapper(): __init__ and _load_mappings open
\* it for reading only (line 241).
MappingFileAfterLoad(file) == file

\* ------------------------------------ AzureDevOpsClient (azure_devops_client.py)
NoClient == [exc |-> "not_constructed", config |-> EmptyDict, connected |-> FALSE]

\* The except-ImportError fallback of __init__: the environment alone.
FallbackConfig(e) ==
    [organization_url |-> e["AZURE_DEVOPS_ORG_URL"],
     project |-> e["AZURE_DEVOPS_PROJECT"],
     personal_access_token |-> e["AZURE_DEVOPS_PAT"]]

\* The resolve() call __init__ makes, if it makes one.
InitResolve(e, file, mods) ==
    IF "azure.devops" \in mods /\ "azure_config" \in mods
    THEN get_configuration(e, file)
    ELSE NotResolved

\* AzureDevOpsClient(): the exception it raises, or the configuration it holds
\* and the connection it opened. Line 60 constructs a TestCaseMapper over
\* the mapping file last.
AzureDevOpsClient_init(e, file, mods, mfile) ==
    IF "azure.devops" \notin mods
    THEN [exc |-> "ImportError", config |-> EmptyDict, connected |-> FALSE]
    ELSE LET r == InitResolve(e, file, mods)
             config == IF "azure_config" \in mods THEN r.config ELSE FallbackConfig(e)
         IN  IF r.status \notin {"ok", "not_called"}
             THEN [exc |-> r.status, config |-> EmptyDict, connected |-> FALSE]
             ELSE IF ~(/\ Truthy(Get(config, "organization_url"))
                       /\ Truthy(Get(config, "project"))
                       /\ Truthy(Get(config, "personal_access_token")))
             THEN [exc |-> "ValueError", config |-> EmptyDict, connected |-> FALSE]
             ELSE IF TestCaseMapper_init(mfile).exc # "none"
             THEN [exc |-> TestCaseMapper_init(mfile).exc, config |-> EmptyDict,
                   connected |-> TRUE]
             ELSE [exc |-> "none", config |-> config, connected |-> TRUE]

\* One request to the tracking service. id is the work item addressed (NoId
\* for a creation or a probe), wtype the type created, state and history the
\* fields an update patches, rel/target/comment the relation a link adds,
\* caller the test on whose behalf it is sent ("" outside a test), ok whether
\* the service accepted it.
NoDetail == [kind |-> "none", nodeid |-> "", duration |-> "", error |-> ""]

Request(op, id, wtype, state, history, rel, target, comment, caller, ok) ==
    [op |-> op, id |-> id, wtype |-> wtype, state |-> state, history |-> history,
     rel |-> rel, target |-> target, comment |-> comment, caller |-> caller, ok |-> ok]

\* Kinds of request the service may fail.
FaultKinds == {"create", "link", "update"}

\* The id the service gives the next work item it creates.
NewWorkItemId(rlog) ==
    MaxId + NumTests + 1
        + Cardinality({i \in DOMAIN rlog : rlog[i].op = "create_work_item" /\ rlog[i].ok})

\* create_issue(title, description): the request it sends, the exception it
\* raises and the id it returns.
create_issue(flt, new_id, caller) ==
    [calls |-> <<Request("create_work_item", NoId, "Issue", "To Do", NoDetail,
                         "", NoId, "", caller, "create" \notin flt)>>,
     exc |-> IF "create" \notin flt THEN "none" ELSE "ServiceError",
     id |-> new_id]

\* The parameters create_test_case declares (line 107).
create_test_case_params == {"title", "description", "test_steps_xml", "linked_story_id"}

\* create_test_case(**kwargs): a keyword it does not declare is a TypeError
\* before its body runs; otherwise the request it sends, the exception it
\* raises and the id it returns.
create_test_case(kwargs, flt, new_id, caller) ==
    IF ~(kwargs \subseteq create_test_case_params)
    THEN [calls |-> <<>>, exc |-> "TypeError", id |-> NoId]
    ELSE [calls |-> <<Request("create_work_item", NoId, "Test Case", "Design", NoDetail,
                              "", NoId, "", caller, "create" \notin flt)>>,
          exc |-> IF "create" \notin flt THEN "none" ELSE "ServiceError",
          id |-> new_id]

\* link_work_items that raises for a kind it does not know instead of
\* sending it as a generic relation.
LinkWorkItemsRejectsUnknownKind(source_id, target_id, link_type, flt, caller) ==
    IF link_type \notin {"Related", "Tests"}
    THEN [calls |-> <<>>, exc |-> "ValueError"]
    ELSE [calls |-> <<Request("update_work_item", source_id, "", None, NoDetail,
                              "System.LinkTypes.Related", target_id, link_type, caller,
                              "link" \notin flt)>>,
          exc |-> IF "link" \notin flt THEN "none" ELSE "ServiceError"]

\* link_work_items(source_id, target_id, link_type): the request it sends and
\* the exception it raises.
link_work_items(source_id, target_id, link_type, flt, caller) ==
    LET rel_type == IF link_type = "Tests" THEN "System.LinkTypes.Related"
                    ELSE "System.LinkTypes.Related"
        ok == "link" \notin flt
    IN  [calls |-> <<Request("update_work_item", source_id, "", None, NoDetail,
                             rel_type, target_id, link_type, caller, ok)>>,
         exc |-> IF ok THEN "none" ELSE "ServiceError"]

\* create_bug_from_test_failure without the link of lines 168-169.
CreateBugNeverLinks(test_name, error_details, linked_test_case_id, flt, new_id, caller) ==
    [calls |-> <<Request("create_work_item", NoId, "Bug", "New",
                         [kind |-> "bug", nodeid |-> test_name, duration |-> "",
                          error |-> error_details],
                         "", NoId, "", caller, "create" \notin flt)>>,
     exc |-> IF "create" \notin flt THEN "none" ELSE "ServiceError",
     id |-> new_id]

\* create_bug_from_test_failure(test_name, error_details, test_file,
\* linked_test_case_id): the requests it sends, the exception it raises and the
\* id it returns.
create_bug_from_test_failure(test_name, error_details, linked_test_case_id, flt, new_id, caller) ==
    LET ok == "create" \notin flt
        create == Request("create_work_item", NoId, "Bug", "New",
                          [kind |-> "bug", nodeid |-> test_name, duration |-> "",
                           error |-> error_details],
                          "", NoId, "", caller, ok)
        link == IF ok /\ linked_test_case_id # NoId
                THEN link_work_items(new_id, linked_test_case_id, "Tested By", flt, caller)
                ELSE [calls |-> <<>>, exc |-> "none"]
    IN  [calls |-> <<create>> \o link.calls,
         exc |-> IF ~ok THEN "ServiceError" ELSE link.exc,
         id |-> new_id]

\* update_test_result with a state patch for every status: anything that is
\* not PASSED sets Ready.
UpdateTestResultSkippedReopens(work_item_id, test_status, execution_details, flt, caller) ==
    [calls |-> <<Request("update_work_item", work_item_id, "",
                         IF test_status = "PASSED" THEN "Closed" ELSE "Ready",
                         execution_details, "", NoId, "", caller, "update" \notin flt)>>,
     exc |-> IF "update" \notin flt THEN "none" ELSE "ServiceError"]

\* update_test_result without the state patch for PASSED.
UpdateTestResultPassedKeepsState(work_item_id, test_status, execution_details, flt, caller) ==
    LET state == IF test_status = "FAILED" THEN "Ready" ELSE None
    IN  IF state # None \/ execution_details # NoDetail
        THEN [calls |-> <<Request("update_work_item", work_item_id, "", state,
                                  execution_details, "", NoId, "", caller,
                                  "update" \notin flt)>>,
              exc |-> IF "update" \notin flt THEN "none" ELSE "ServiceError"]
        ELSE [calls |-> <<>>, exc |-> "none"]

\* update_test_result(work_item_id, test_status, execution_details): the
\* request it sends (none when there is nothing to patch) and the exception it
\* raises.
update_test_result(work_item_id, test_status, execution_details, flt, caller) ==
    LET state == IF test_status = "PASSED" THEN "Closed"
                 ELSE IF test_status = "FAILED" THEN "Ready"
                 ELSE None
        history == IF execution_details # NoDetail THEN execution_details ELSE NoDetail
        updates == state # None \/ history # NoDetail
        ok == "update" \notin flt
    IN  IF updates
        THEN [calls |-> <<Request("update_work_item", work_item_id, "", state, history,
                                  "", NoId, "", caller, ok)>>,
              exc |-> IF ok THEN "none" ELSE "ServiceError"]
        ELSE [calls |-> <<>>, exc |-> "none"]

\* ------------------------------------------------------ the tracking service
\* What the service holds of an entry: its type, its state, its history
\* entries in order and its relations.
Entry(wtype, state) ==
    [wtype |-> wtype, state |-> state, history |-> <<>>, relations |-> {}]

\* The entries that exist before anything is created: the ids a mapping or a
\* decorator can name.
ExistingIds == 1..(MaxId + NumTests)

\* The service handling one request: a rejected request and a probe change
\* nothing; a creation adds the entry under new_id with the state sent; a
\* patch of System.State sets the state, a patch of System.History appends an
\* entry, a patch of /relations/- adds the relation.
ApplyRequest(rem, req, new_id) ==
    IF ~req.ok THEN rem
    ELSE IF req.op = "create_work_item"
    THEN Update(rem, [i \in {new_id} |-> Entry(req.wtype, req.state)])
    ELSE IF req.op = "update_work_item" /\ req.id \in DOMAIN rem
    THEN [rem EXCEPT ![req.id] =
            [wtype |-> @.wtype,
             state |-> IF req.state # None THEN req.state ELSE @.state,
             history |-> IF req.history # NoDetail THEN Append(@.history, req.history)
                         ELSE @.history,
             relations |-> IF req.rel # ""
                           THEN @.relations \cup {[rel |-> req.rel, target |-> req.target,
                                                   comment |-> req.comment]}
                           ELSE @.relations]]
    ELSE rem

RECURSIVE ApplyRequests(_, _, _)
ApplyRequests(rem, calls, new_id) ==
    IF calls = <<>> THEN rem
    ELSE ApplyRequests(ApplyRequest(rem, Head(calls), new_id), Tail(calls), new_id)

\* ----------------------------------------------------------------- the tests
Tests == {TestNames[i] : i \in 1..NumTests}
Ids == 1..MaxId
TestIndex(t) == CHOOSE i \in 1..NumTests : TestNames[i] = t

\* azure_work_item(work_item_id)(func): the attribute the decorator stores on
\* the function object.
azure_work_item(work_item_id) == [azure_work_item_id |-> work_item_id]

\* getattr(obj, name, None) on an object whose attributes are obj: whether an
\* attribute of that name exists, and the attributes of its value (the values
\* stored on a test function are plain ids, which carry no attributes).
GetAttrOrNone(obj, name) ==
    [found |-> name \in DOMAIN obj, attrs |-> EmptyDict]

\* hasattr(obj, name)
HasAttr(obj, name) == name \in DOMAIN obj

\* The fixture with the two lookups in the wrong order: the decorator's id
\* read off the function first, the mapping store second.
ResolveDecoratorFirst(mappings, test_name, obj) ==
    IF HasAttr(obj, "azure_work_item_id")
    THEN [id |-> obj["azure_work_item_id"], src |-> "decorator"]
    ELSE IF get_work_item_id(mappings, test_name) # NoId
    THEN [id |-> get_work_item_id(mappings, test_name), src |-> "mapping"]
    ELSE [id |-> NoId, src |-> "none"]

\* ------------------------------------------------ conftest.py: per-test fixture
\* Lines 50-67: the entry id the fixture resolves for the test named test_name
\* whose function object has attributes obj, and where it found it.
ResolveWorkItemId(mappings, test_name, obj) ==
    LET work_item_id == get_work_item_id(mappings, test_name)
    IN  IF work_item_id # NoId
        THEN [id |-> work_item_id, src |-> "mapping"]
        ELSE LET test_func == GetAttrOrNone(obj, test_name)
             IN  IF test_func.found /\ HasAttr(test_func.attrs, "azure_work_item_id")
                 THEN [id |-> test_func.attrs["azure_work_item_id"], src |-> "decorator"]
                 ELSE [id |-> NoId, src |-> "none"]

\* The fixture with "except ImportError" in place of "except Exception".
FixtureCatchesImportErrorOnly(exc) == exc = "ImportError"

\* The exceptions the modelled code can raise, all of them Exceptions.
Exception == {"ImportError", "ValueError", "ServiceError", "AttributeError",
              "UnicodeDecodeError", "TypeError"}

\* except Exception (line 69): the exceptions the fixture swallows.
FixtureCatches(exc) == exc \in Exception

\* The client object as stored on the node: what the hook needs of it.
ClientObject(c) == [config |-> c.config]

\* The credential check with the test left out.
HasCredentialUnchecked(e) == TRUE

\* os.getenv('AZURE_DEVOPS_PAT') as a condition (lines 37 and 157).
HasCredential(e) == Truthy(e["AZURE_DEVOPS_PAT"])

\* azure_devops_integration_fixture(request) for test t: the attributes it
\* sets on the node, what it prints, the exception that leaves it, and the
\* client construction and resolve() it performed.
FixtureOutcome(t, e, file, mods, mfile, obj) ==
    IF "azure_devops_client" \notin mods
    THEN [attrs |-> EmptyDict, prints |-> {}, exc |-> "none",
          client |-> NoClient, resolved |-> NotResolved]
    ELSE IF ~HasCredential(e)
    THEN [attrs |-> EmptyDict, prints |-> {"pat_not_found"}, exc |-> "none",
          client |-> NoClient, resolved |-> NotResolved]
    ELSE LET azure == AzureDevOpsClient_init(e, file, mods, mfile)
             r == InitResolve(e, file, mods)
             mapper == _load_mappings(mfile)
             found == ResolveWorkItemId(mapper, t, obj)
         IN  IF azure.exc # "none"
             THEN [attrs |-> EmptyDict,
                   prints |-> IF FixtureCatches(azure.exc) THEN {"setup_failed"} ELSE {},
                   exc |-> IF FixtureCatches(azure.exc) THEN "none" ELSE azure.exc,
                   client |-> azure, resolved |-> r]
             ELSE IF found.src = "none"
             THEN [attrs |-> EmptyDict, prints |-> {"no_mapping_found"}, exc |-> "none",
                   client |-> azure, resolved |-> r]
             ELSE [attrs |-> [azure_work_item_id |-> found.id,
                              azure_integration |-> ClientObject(azure)],
                   prints |-> {IF found.src = "mapping" THEN "linked" ELSE "decorator_found"},
                   exc |-> "none", client |-> azure, resolved |-> r]

\* ------------------------------------------------- conftest.py: logreport hook
\* The report the runner builds for one phase of test t. The runner fills in
\* its own fields only: nothing the fixture stored on the node is copied.
NoReport == [nodeid |-> "", when |-> "none", outcome |-> "none", longrepr |-> "",
             duration |-> "", attrs |-> EmptyDict]

MakeReport(t, when, outcome, node) ==
    [nodeid |-> t, when |-> when, outcome |-> outcome,
     longrepr |-> IF outcome = "failed" THEN "AssertionError"
                  ELSE IF outcome = "skipped" THEN "Skipped" ELSE "",
     duration |-> "<duration>",
     attrs |-> EmptyDict]

\* The hook with the guard of line 88 left out.
HasSyncContextUnchecked(report) == TRUE

\* Line 88: the hook goes on only when the report carries both attributes.
HasSyncContext(report) ==
    HasAttr(report.attrs, "azure_work_item_id") /\ HasAttr(report.attrs, "azure_integration")

\* except Exception around the bug creation (line 128) and around the whole
\* update (line 144).
BugCreationCatches(exc) == exc \in Exception
HookCatches(exc) == exc \in Exception

\* Lines 98-138: status and execution details for a report.
TestStatus(report) ==
    IF report.outcome = "passed" THEN "PASSED"
    ELSE IF report.outcome = "failed" THEN "FAILED"
    ELSE "SKIPPED"

ExecutionDetails(report) ==
    [kind |-> TestStatus(report), nodeid |-> report.nodeid,
     duration |-> IF TestStatus(report) = "SKIPPED" THEN "" ELSE report.duration,
     error |-> IF TestStatus(report) = "PASSED" THEN "" ELSE report.longrepr]

\* Lines 94-145, the try block: the requests sent, what is printed and the
\* exception that leaves the block.
SyncBody(report, flt, new_id) ==
    LET work_item_id == report.attrs["azure_work_item_id"]
        test_status == TestStatus(report)
        bug == IF test_status = "FAILED"
               THEN create_bug_from_test_failure(report.nodeid, report.longrepr,
                                                 work_item_id, flt, new_id, report.nodeid)
               ELSE [calls |-> <<>>, exc |-> "none", id |-> NoId]
        bugEscapes == bug.exc # "none" /\ ~BugCreationCatches(bug.exc)
        upd == IF bugEscapes THEN [calls |-> <<>>, exc |-> bug.exc]
               ELSE update_test_result(work_item_id, test_status,
                                       ExecutionDetails(report), flt, report.nodeid)
    IN  [calls |-> bug.calls \o upd.calls,
         prints |-> {"updating"}
                    \cup (IF test_status # "FAILED" THEN {}
                          ELSE IF bug.exc = "none" THEN {"bug_created"}
                          ELSE IF ~bugEscapes THEN {"bug_failed"} ELSE {})
                    \cup (IF upd.exc = "none" THEN {"updated_ok"}
                          ELSE IF HookCatches(upd.exc) THEN {"update_failed"} ELSE {}),
         exc |-> IF upd.exc = "none" \/ HookCatches(upd.exc) THEN "none" ELSE upd.exc]

\* pytest_runtest_logreport(report)
HookOutcome(report, mods, flt, new_id) ==
    IF "azure_devops_client" \notin mods
    THEN [calls |-> <<>>, prints |-> {}, exc |-> "none"]
    ELSE IF report.when # "call"
    THEN [calls |-> <<>>, prints |-> {}, exc |-> "none"]
    ELSE IF ~HasSyncContext(report)
    THEN [calls |-> <<>>, prints |-> {"processing"}, exc |-> "none"]
    ELSE IF ~(HasAttr(report.attrs, "azure_work_item_id")
              /\ HasAttr(report.attrs, "azure_integration"))
    THEN [calls |-> <<>>, prints |-> {"processing"}, exc |-> "AttributeError"]
    ELSE LET b == SyncBody(report, flt, new_id)
         IN  [calls |-> b.calls, prints |-> {"processing"} \cup b.prints, exc |-> b.exc]

\* --------------------------------- conftest.py: post-collection validation
\* pytest_collection_modifyitems(config, items): the line it prints per test
\* ("" when validation does not run, "validation_failed" when the except of
\* line 182 ends it).
ValidationLine(mappings, test_name, obj) ==
    IF test_name \in DOMAIN mappings THEN "mapped"
    ELSE LET test_func == GetAttrOrNone(obj, test_name)
         IN  IF test_func.found /\ HasAttr(test_func.attrs, "azure_work_item_id")
             THEN "decorator"
             ELSE "unmapped"

CollectionOutcome(e, mods, mfile, fattrs) ==
    IF "azure_devops_client" \notin mods \/ ~HasCredential(e)
    THEN [t \in Tests |-> ""]
    ELSE LET mapper == TestCaseMapper_init(mfile)
         IN  IF mapper.exc # "none"
             THEN [t \in Tests |-> "validation_failed"]
             ELSE [t \in Tests |->
                      ValidationLine(get_all_mappings(mapper.mappings), t, fattrs[t])]

\* ------------------------------------------------------------ the test session
Outcomes == {"passed", "failed", "skipped"}

\* What the runner does after the hook has handled a report.
NextPhase(report) ==
    IF report.when = "setup" THEN (IF report.outcome = "passed" THEN "call" ELSE "teardown")
    ELSE IF report.when = "call" THEN "teardown"
    ELSE IF cur < NumTests THEN "fixture" ELSE "finished"

pytest_collection_modifyitems ==
    /\ pc = "collection"
    /\ validation' = CollectionOutcome(env, imports, mappingFile, funcAttrs)
    /\ mappingFile' = IF "azure_devops_client" \in imports /\ HasCredential(env)
                      THEN MappingFileAfterLoad(mappingFile) ELSE mappingFile
    /\ pc' = "fixture"
    /\ UNCHANGED <<cfgVars, script, storeVars, apiVars, probe, resolved, client, remoteLog, funcAttrs,
                   nodeAttrs, cur, pendingReport, ownOutcome, runnerOutcome, escaped,
                   log, faults, reported>>

\* Setup phase, first the autouse fixture. An exception leaving it is a setup
\* error: the runner reports the test as errored and skips its call phase.
azure_devops_integration_fixture ==
    /\ pc = "fixture"
    /\ LET t == TestNames[cur]
           r == FixtureOutcome(t, env, localFile, imports, mappingFile, funcAttrs[t])
       IN  /\ nodeAttrs' = [nodeAttrs EXCEPT ![t] = Update(@, r.attrs)]
           /\ log' = [log EXCEPT ![t] = @ \cup r.prints]
           /\ client' = r.client
           /\ resolved' = r.resolved
           /\ IF r.exc = "none"
              THEN /\ pc' = "app_setup"
                   /\ UNCHANGED <<pendingReport, runnerOutcome, escaped>>
              ELSE /\ pc' = "logreport"
                   /\ pendingReport' = MakeReport(t, "setup", "failed", nodeAttrs'[t])
                   /\ runnerOutcome' = [runnerOutcome EXCEPT ![t] = "error"]
                   /\ escaped' = escaped \cup {<<"fixture", t>>}
           /\ mappingFile' = IF r.client.connected
                             THEN MappingFileAfterLoad(mappingFile) ELSE mappingFile
    /\ UNCHANGED <<cfgVars, script, storeVars, apiVars, remoteLog, funcAttrs, cur, ownOutcome,
                   faults, validation, reported, probe>>

\* Setup phase, then the test's own app_setup fixture: it launches the app, or
\* skips the test when the launch fails.
app_setup(launched) ==
    /\ pc = "app_setup"
    /\ LET t == TestNames[cur]
           outcome == IF launched THEN "passed" ELSE "skipped"
       IN  /\ pendingReport' = MakeReport(t, "setup", outcome, nodeAttrs[t])
           /\ IF launched
              THEN UNCHANGED <<ownOutcome, runnerOutcome>>
              ELSE /\ ownOutcome' = [ownOutcome EXCEPT ![t] = "skipped"]
                   /\ runnerOutcome' = [runnerOutcome EXCEPT ![t] = "skipped"]
    /\ pc' = "logreport"
    /\ UNCHANGED <<cfgVars, script, storeVars, apiVars, resolved, client, remoteLog, mappingFile, funcAttrs,
                   nodeAttrs, cur, escaped, log, faults, validation, reported, probe>>

\* Call phase: the test body runs and its assertions decide the outcome.
run_test(outcome) ==
    /\ pc = "call"
    /\ LET t == TestNames[cur]
       IN  /\ ownOutcome' = [ownOutcome EXCEPT ![t] = outcome]
           /\ runnerOutcome' = [runnerOutcome EXCEPT ![t] = outcome]
           /\ pendingReport' = MakeReport(t, "call", outcome, nodeAttrs[t])
    /\ pc' = "logreport"
    /\ UNCHANGED <<cfgVars, script, storeVars, apiVars, resolved, client, remoteLog, mappingFile, funcAttrs,
                   nodeAttrs, cur, escaped, log, faults, validation, reported, probe>>

run_teardown ==
    /\ pc = "teardown"
    /\ pendingReport' = MakeReport(TestNames[cur], "teardown", "passed", nodeAttrs[TestNames[cur]])
    /\ pc' = "logreport"
    /\ faults' = {}
    /\ UNCHANGED <<cfgVars, script, storeVars, apiVars, probe, resolved, client, remoteLog, mappingFile, funcAttrs,
                   nodeAttrs, cur, ownOutcome, runnerOutcome, escaped, log,
                   validation, reported>>

\* The runner passes each phase report to the hook. flt is what the tracking
\* service rejects while the hook handles a call-phase report. An exception
\* leaving the hook is an internal error of the runner, which ends the session.
pytest_runtest_logreport(flt) ==
    /\ pc = "logreport"
    /\ pendingReport.when = "call" \/ flt = {}
    /\ LET t == pendingReport.nodeid
           r == HookOutcome(pendingReport, imports, flt, NewWorkItemId(remoteLog))
       IN  /\ remoteLog' = remoteLog \o r.calls
           /\ remote' = ApplyRequests(remote, r.calls, NewWorkItemId(remoteLog))
           /\ log' = [log EXCEPT ![t] = @ \cup r.prints]
           /\ reported' = [reported EXCEPT ![t] = @ \cup {pendingReport.when}]
           /\ faults' = flt
           /\ IF r.exc = "none"
              THEN /\ pc' = NextPhase(pendingReport)
                   /\ cur' = IF pendingReport.when = "teardown" /\ cur < NumTests
                             THEN cur + 1 ELSE cur
                   /\ UNCHANGED escaped
              ELSE /\ pc' = "aborted"
                   /\ escaped' = escaped \cup {<<"logreport", t>>}
                   /\ UNCHANGED cur
    /\ pendingReport' = NoReport
    /\ UNCHANGED <<cfgVars, script, storeVars, apiCalls, probe, resolved, client, mappingFile,
                   funcAttrs, nodeAttrs, ownOutcome, runnerOutcome, validation>>

\* ------------------------------------------------------- initial conditions
\* The run's environment: only the credential varies; address and project
\* come from the defaults or the local file.
RunEnvs == {e \in Envs : \A v \in EnvVars \ {"AZURE_DEVOPS_PAT"} : e[v] = None}

RunLocalFiles ==
    {f \in LocalFiles :
        \/ f.status = "absent"
        \/ f.status = "ok" /\ f.content \in {[personal_access_token |-> "file_value"],
                                              [project |-> ""]}}

RunImports == {Modules} \cup {Modules \ {m} : m \in Modules}

MappingTables == UNION {[S -> {MappingEntry(i, "Test Case") : i \in Ids}] : S \in SUBSET Tests}

MappingFiles ==
    {[status |-> "absent", table |-> EmptyDict],
     [status |-> "corrupt", table |-> EmptyDict],
     [status |-> "undecodable", table |-> EmptyDict]}
    \cup {[status |-> "ok", table |-> m] : m \in MappingTables}

\* Each test either carries @azure_work_item(i), i its place in the file, or
\* is undecorated.
FuncAttrs ==
    {[t \in Tests |-> IF t \in D THEN azure_work_item(TestIndex(t)) ELSE EmptyDict] :
        D \in SUBSET Tests}

Init ==
    /\ env \in RunEnvs
    /\ localFile \in RunLocalFiles
    /\ imports \in RunImports
    /\ mappingFile \in MappingFiles
    /\ funcAttrs \in FuncAttrs
    /\ resolved = NotResolved
    /\ client = NoClient
    /\ remoteLog = <<>>
    /\ nodeAttrs = [t \in Tests |-> EmptyDict]
    /\ pc = "collection"
    /\ cur = 1
    /\ pendingReport = NoReport
    /\ ownOutcome = [t \in Tests |-> "none"]
    /\ runnerOutcome = [t \in Tests |-> "none"]
    /\ escaped = {}
    /\ log = [t \in Tests |-> {}]
    /\ faults = {}
    /\ validation = [t \in Tests |-> ""]
    /\ reported = [t \in Tests |-> {}]
    /\ probe = "not_run"
    /\ mappers = [w \in Writers |-> NoMapper]
    /\ storeCalls = <<>>
    /\ remote = [i \in ExistingIds |-> Entry("Test Case", "Design")]
    /\ apiCalls = <<>>
    /\ script = ""

Next ==
    \/ pytest_collection_modifyitems
    \/ azure_devops_integration_fixture
    \/ \E launched \in BOOLEAN : app_setup(launched)
    \/ \E outcome \in Outcomes : run_test(outcome)
    \/ run_teardown
    \/ \E flt \in SUBSET FaultKinds : pytest_runtest_logreport(flt)

Spec == Init /\ [][Next]_vars

\* ------------------------------------------- the connection probe, on its own
\* test_azure_connection() that returns True whatever get_project does.
ProbeOutcomeIgnoresFailure(e, file, mods, mfile, reachable) ==
    [client |-> AzureDevOpsClient_init(e, file, mods, mfile),
     resolved |-> InitResolve(e, file, mods),
     calls |-> IF AzureDevOpsClient_init(e, file, mods, mfile).exc = "none"
               THEN <<Request("get_project", NoId, "", None, NoDetail, "", NoId, "",
                              "", reachable)>>
               ELSE <<>>,
     result |-> "True"]

\* test_azure_connection(): builds a client and fetches the project; any
\* exception makes it return False.
ProbeOutcome(e, file, mods, mfile, reachable) ==
    LET c == AzureDevOpsClient_init(e, file, mods, mfile)
    IN  [client |-> c,
         resolved |-> InitResolve(e, file, mods),
         calls |-> IF c.exc = "none"
                   THEN <<Request("get_project", NoId, "", None, NoDetail, "", NoId, "",
                                  "", reachable)>>
                   ELSE <<>>,
         result |-> IF c.exc = "none" /\ reachable THEN "True" ELSE "False"]

test_azure_connection(reachable) ==
    /\ pc = "script"
    /\ LET r == ProbeOutcome(env, localFile, imports, mappingFile, reachable)
       IN  /\ client' = r.client
           /\ resolved' = r.resolved
           /\ remoteLog' = remoteLog \o r.calls
           /\ probe' = r.result
    /\ pc' = "script_done"
    /\ UNCHANGED <<cfgVars, script, storeVars, apiVars, mappingFile, funcAttrs, nodeAttrs, cur, pendingReport,
                   ownOutcome, runnerOutcome, escaped, log, faults, validation, reported>>

\* A script that probes the connection, under every environment, local file
\* and set of importable modules (the script itself imports the integration
\* module).
InitConfig ==
    /\ env \in Envs
    /\ localFile \in LocalFiles
    /\ imports \in {m \in SUBSET Modules : "azure_devops_client" \in m}
    /\ mappingFile = [status |-> "absent", table |-> EmptyDict]
    /\ funcAttrs = [t \in Tests |-> EmptyDict]
    /\ resolved = NotResolved
    /\ client = NoClient
    /\ remoteLog = <<>>
    /\ nodeAttrs = [t \in Tests |-> EmptyDict]
    /\ pc = "script"
    /\ cur = 1
    /\ pendingReport = NoReport
    /\ ownOutcome = [t \in Tests |-> "none"]
    /\ runnerOutcome = [t \in Tests |-> "none"]
    /\ escaped = {}
    /\ log = [t \in Tests |-> {}]
    /\ faults = {}
    /\ validation = [t \in Tests |-> ""]
    /\ reported = [t \in Tests |-> {}]
    /\ probe = "not_run"
    /\ mappers = [w \in Writers |-> NoMapper]
    /\ storeCalls = <<>>
    /\ remote = [i \in ExistingIds |-> Entry("Test Case", "Design")]
    /\ apiCalls = <<>>
    /\ script = ""

NextConfig == \E reachable \in BOOLEAN : test_azure_connection(reachable)

SpecConfig == InitConfig /\ [][NextConfig]_vars

\* The probe again, over a local file that is absent or cannot be used.
InitLocalFile ==
    /\ env \in Envs
    /\ localFile \in {f \in LocalFiles : f.status # "ok"} \cup UnreadableLocalFiles
    /\ imports \in {m \in SUBSET Modules : "azure_devops_client" \in m}
    /\ mappingFile = [status |-> "absent", table |-> EmptyDict]
    /\ funcAttrs = [t \in Tests |-> EmptyDict]
    /\ resolved = NotResolved
    /\ client = NoClient
    /\ remoteLog = <<>>
    /\ nodeAttrs = [t \in Tests |-> EmptyDict]
    /\ pc = "script"
    /\ cur = 1
    /\ pendingReport = NoReport
    /\ ownOutcome = [t \in Tests |-> "none"]
    /\ runnerOutcome = [t \in Tests |-> "none"]
    /\ escaped = {}
    /\ log = [t \in Tests |-> {}]
    /\ faults = {}
    /\ validation = [t \in Tests |-> ""]
    /\ reported = [t \in Tests |-> {}]
    /\ probe = "not_run"
    /\ mappers = [w \in Writers |-> NoMapper]
    /\ storeCalls = <<>>
    /\ remote = [i \in ExistingIds |-> Entry("Test Case", "Design")]
    /\ apiCalls = <<>>
    /\ script = ""

SpecLocalFile == InitLocalFile /\ [][NextConfig]_vars

\* --------------------------------------------- the mapping store, on its own
\* Everything of a test session and of the client at its initial value.
SessionIdle ==
    /\ funcAttrs = [t \in Tests |-> EmptyDict]
    /\ resolved = NotResolved
    /\ client = NoClient
    /\ remoteLog = <<>>
    /\ nodeAttrs = [t \in Tests |-> EmptyDict]
    /\ cur = 1
    /\ pendingReport = NoReport
    /\ ownOutcome = [t \in Tests |-> "none"]
    /\ runnerOutcome = [t \in Tests |-> "none"]
    /\ escaped = {}
    /\ log = [t \in Tests |-> {}]
    /\ faults = {}
    /\ validation = [t \in Tests |-> ""]
    /\ reported = [t \in Tests |-> {}]
    /\ probe = "not_run"

sessionVars == <<funcAttrs, resolved, client, remoteLog, nodeAttrs, cur, pendingReport,
                 ownOutcome, runnerOutcome, escaped, log, faults, validation, reported,
                 probe>>

\* One mapping store operation as the record kept of it: the instance's table
\* as it was when the operation began, the exception that left it, and
\* whether the load printed its warning.
StoreCall(op, w, test_function, work_item_id, work_item_type, before, exc, warned) ==
    [op |-> op, w |-> w, test_function |-> test_function, work_item_id |-> work_item_id,
     work_item_type |-> work_item_type, before |-> before, exc |-> exc, warned |-> warned]

\* The record of the two latest operations, c being the latest.
Latest(calls, c) ==
    IF calls = <<>> THEN <<c>> ELSE <<calls[Len(calls)], c>>

\* The type every caller in the repository passes to add_mapping.
WorkItemTypes == {"Test Case"}

\* Process w constructs its TestCaseMapper: load().
TestCaseMapper(w) ==
    /\ pc = "store"
    /\ mappers' = [mappers EXCEPT ![w] = TestCaseMapper_init(mappingFile)]
    /\ storeCalls' = Latest(storeCalls,
                            StoreCall("TestCaseMapper", w, "", NoId, "", mappers[w].mappings,
                                      TestCaseMapper_init(mappingFile).exc,
                                      _load_mappings_warns(mappingFile)))
    /\ UNCHANGED <<cfgVars, script, sessionVars, apiVars, mappingFile, pc>>

\* Process w calls add_mapping on the instance it holds: the assignment of
\* line 257, then _save_mappings().
TestCaseMapper_add_mapping(w, test_function, work_item_id, work_item_type) ==
    /\ pc = "store"
    /\ mappers[w].exc = "none"
    /\ LET table == add_mapping(mappers[w].mappings, test_function, work_item_id,
                                work_item_type)
       IN  /\ mappers' = [mappers EXCEPT ![w] = [exc |-> "none", mappings |-> table]]
           /\ mappingFile' = _save_mappings(table, mappingFile)
    /\ storeCalls' = Latest(storeCalls,
                            StoreCall("add_mapping", w, test_function, work_item_id,
                                      work_item_type, mappers[w].mappings, "none", FALSE))
    /\ UNCHANGED <<cfgVars, script, sessionVars, apiVars, pc>>

InitStore ==
    /\ env = [v \in EnvVars |-> None]
    /\ localFile = [status |-> "absent", content |-> EmptyDict]
    /\ imports = Modules
    /\ mappingFile \in MappingFiles
    /\ SessionIdle
    /\ pc = "store"
    /\ mappers = [w \in Writers |-> NoMapper]
    /\ storeCalls = <<>>
    /\ remote = [i \in ExistingIds |-> Entry("Test Case", "Design")]
    /\ apiCalls = <<>>
    /\ script = ""

NextStore ==
    \/ \E w \in Writers : TestCaseMapper(w)
    \/ \E w \in Writers, t \in Tests, i \in Ids, T \in WorkItemTypes :
          TestCaseMapper_add_mapping(w, t, i, T)

SpecStore == InitStore /\ [][NextStore]_vars

\* ------------------------------------------------- the client, called directly
\* One client operation as the record kept of it: its arguments ("" or NoId
\* for those it does not take), the requests it sent, the exception that
\* left it, the id it returned and the service's entries when it began.
ApiCall(op, work_item_id, test_status, execution_details, linked_test_case_id, link_type, r, before) ==
    [op |-> op, work_item_id |-> work_item_id, test_status |-> test_status,
     execution_details |-> execution_details,
     linked_test_case_id |-> linked_test_case_id, link_type |-> link_type,
     calls |-> r.calls, exc |-> r.exc, before |-> before]

\* A caller makes two calls, one after the other.
AfterCall(p) == IF p = "api" THEN "api_second" ELSE "api_done"

TestStatuses == {"PASSED", "FAILED", "SKIPPED"}
SomeDetail == [kind |-> "text", nodeid |-> "", duration |-> "<duration>", error |-> ""]
\* link_work_items' default, the kind its test singles out, the kind
\* create_bug_from_test_failure passes, and one more.
LinkTypes == {"Related", "Tests", "Tested By", "Duplicate"}
EntryStates == {"Design", "Ready", "Closed"}

AzureDevOpsClient_update_test_result(work_item_id, test_status, execution_details, flt) ==
    /\ pc \in {"api", "api_second"}
    /\ client.exc = "none"
    /\ LET r == update_test_result(work_item_id, test_status, execution_details, flt, "")
       IN  /\ remoteLog' = remoteLog \o r.calls
           /\ remote' = ApplyRequests(remote, r.calls, NewWorkItemId(remoteLog))
           /\ apiCalls' = Latest(apiCalls,
                                 ApiCall("update_test_result", work_item_id, test_status,
                                         execution_details, NoId, "", r, remote))
    /\ pc' = AfterCall(pc)
    /\ faults' = flt
    /\ UNCHANGED <<cfgVars, script, storeVars, resolved, client, mappingFile, funcAttrs, nodeAttrs,
                   cur, pendingReport, ownOutcome, runnerOutcome, escaped, log,
                   validation, reported, probe>>

AzureDevOpsClient_create_bug_from_test_failure(test_name, linked_test_case_id, flt) ==
    /\ pc \in {"api", "api_second"}
    /\ client.exc = "none"
    /\ LET r == create_bug_from_test_failure(test_name, "AssertionError",
                                             linked_test_case_id, flt,
                                             NewWorkItemId(remoteLog), "")
       IN  /\ remoteLog' = remoteLog \o r.calls
           /\ remote' = ApplyRequests(remote, r.calls, NewWorkItemId(remoteLog))
           /\ apiCalls' = Latest(apiCalls,
                                 ApiCall("create_bug_from_test_failure",
                                         NewWorkItemId(remoteLog), "", NoDetail,
                                         linked_test_case_id, "", r, remote))
    /\ pc' = AfterCall(pc)
    /\ faults' = flt
    /\ UNCHANGED <<cfgVars, script, storeVars, resolved, client, mappingFile, funcAttrs, nodeAttrs,
                   cur, pendingReport, ownOutcome, runnerOutcome, escaped, log,
                   validation, reported, probe>>

AzureDevOpsClient_link_work_items(source_id, target_id, link_type, flt) ==
    /\ pc \in {"api", "api_second"}
    /\ client.exc = "none"
    /\ LET r == link_work_items(source_id, target_id, link_type, flt, "")
       IN  /\ remoteLog' = remoteLog \o r.calls
           /\ remote' = ApplyRequests(remote, r.calls, NewWorkItemId(remoteLog))
           /\ apiCalls' = Latest(apiCalls,
                                 ApiCall("link_work_items", source_id, "", NoDetail,
                                         target_id, link_type, r, remote))
    /\ pc' = AfterCall(pc)
    /\ faults' = flt
    /\ UNCHANGED <<cfgVars, script, storeVars, resolved, client, mappingFile, funcAttrs, nodeAttrs,
                   cur, pendingReport, ownOutcome, runnerOutcome, escaped, log,
                   validation, reported, probe>>

\* A caller that holds a constructed client, over entries in every state.
InitClient ==
    /\ env = [v \in EnvVars |-> IF v = "AZURE_DEVOPS_PAT" THEN "env_value" ELSE None]
    /\ localFile = [status |-> "absent", content |-> EmptyDict]
    /\ imports = Modules
    /\ mappingFile = [status |-> "absent", table |-> EmptyDict]
    /\ funcAttrs = [t \in Tests |-> EmptyDict]
    /\ resolved = InitResolve(env, localFile, imports)
    /\ client = AzureDevOpsClient_init(env, localFile, imports, mappingFile)
    /\ remoteLog = <<>>
    /\ nodeAttrs = [t \in Tests |-> EmptyDict]
    /\ pc = "api"
    /\ cur = 1
    /\ pendingReport = NoReport
    /\ ownOutcome = [t \in Tests |-> "none"]
    /\ runnerOutcome = [t \in Tests |-> "none"]
    /\ escaped = {}
    /\ log = [t \in Tests |-> {}]
    /\ faults = {}
    /\ validation = [t \in Tests |-> ""]
    /\ reported = [t \in Tests |-> {}]
    /\ probe = "not_run"
    /\ mappers = [w \in Writers |-> NoMapper]
    /\ storeCalls = <<>>
    /\ \E st \in [Ids -> EntryStates] :
          remote = [i \in ExistingIds |->
                       Entry("Test Case", IF i \in Ids THEN st[i] ELSE "Design")]
    /\ apiCalls = <<>>
    /\ script = ""

NextClient ==
    \/ \E i \in Ids, status \in TestStatuses, details \in {NoDetail, SomeDetail},
          flt \in SUBSET {"update"} :
          AzureDevOpsClient_update_test_result(i, status, details, flt)
    \/ \E t \in Tests, linked \in {NoId} \cup Ids, flt \in SUBSET {"create", "link"} :
          AzureDevOpsClient_create_bug_from_test_failure(t, linked, flt)
    \/ \E i \in Ids, j \in Ids, kind \in LinkTypes, flt \in SUBSET {"link"} :
          AzureDevOpsClient_link_work_items(i, j, kind, flt)

SpecClient == InitClient /\ [][NextClient]_vars

\* ------------------------------------------------- the batch-creation scripts
\* The largest number of requests after which the interactive script still
\* prompts for another test case.
MaxCases == 2

Scripts == {"create_all_saa_test_cases", "create_saa_app_work_items",
            "add_test_cases_interactively"}

scriptIdleVars == <<cfgVars, funcAttrs, nodeAttrs, pendingReport, ownOutcome,
                    runnerOutcome, escaped, log, validation, reported, apiCalls>>

\* The head of each script's function (lines 29-38, 29-38 and 149-165): it
\* returns when the integration module could not be imported, and when
\* AzureDevOpsClient() raises.
run_script(which) ==
    /\ pc = "script"
    /\ script' = which
    /\ IF "azure_devops_client" \notin imports
       THEN /\ pc' = "script_done"
            /\ UNCHANGED <<client, resolved>>
       ELSE /\ client' = AzureDevOpsClient_init(env, localFile, imports, mappingFile)
            /\ resolved' = InitResolve(env, localFile, imports)
            /\ pc' = IF client'.exc = "none" THEN "probe" ELSE "script_done"
    /\ UNCHANGED <<scriptIdleVars, storeVars, remoteLog, remote, mappingFile, cur,
                   faults, probe>>

\* "if not test_azure_connection(): return" (lines 41-43, 41-43, 169-171).
script_test_azure_connection(reachable) ==
    /\ pc = "probe"
    /\ LET r == ProbeOutcome(env, localFile, imports, mappingFile, reachable)
       IN  /\ client' = r.client
           /\ resolved' = r.resolved
           /\ remoteLog' = remoteLog \o r.calls
           /\ probe' = r.result
           /\ pc' = IF r.result = "False" THEN "script_done"
                    ELSE IF script = "create_saa_app_work_items" THEN "issue"
                    ELSE "mapper"
    /\ UNCHANGED <<scriptIdleVars, storeVars, script, remote, mappingFile, cur, faults>>

\* mapper = TestCaseMapper() (setup_all_azure_test_cases.py:281,
\* add_azure_test_cases.py:174); an exception ends the script.
script_TestCaseMapper ==
    /\ pc = "mapper"
    /\ mappers' = [mappers EXCEPT !["w1"] = TestCaseMapper_init(mappingFile)]
    /\ storeCalls' = Latest(storeCalls,
                            StoreCall("TestCaseMapper", "w1", "", NoId, "",
                                      mappers["w1"].mappings,
                                      TestCaseMapper_init(mappingFile).exc,
                                      _load_mappings_warns(mappingFile)))
    /\ pc' = IF TestCaseMapper_init(mappingFile).exc # "none" THEN "script_done"
             ELSE IF script = "add_test_cases_interactively" THEN "prompt"
             ELSE "create"
    /\ UNCHANGED <<scriptIdleVars, script, client, resolved, remoteLog, remote,
                   mappingFile, cur, faults, probe>>

\* What create_test_case followed by mapper.add_mapping(function, id,
\* "Test Case") leaves, when r is what create_test_case did: nothing is mapped
\* when it raised.
CreatedAndMapped(r, function, map_it) ==
    /\ remoteLog' = remoteLog \o r.calls
    /\ remote' = ApplyRequests(remote, r.calls, NewWorkItemId(remoteLog))
    /\ IF r.exc = "none" /\ map_it
       THEN LET table == add_mapping(mappers["w1"].mappings, function, r.id, "Test Case")
            IN  /\ mappers' = [mappers EXCEPT !["w1"] = [exc |-> "none", mappings |-> table]]
                /\ mappingFile' = _save_mappings(table, mappingFile)
                /\ storeCalls' = Latest(storeCalls,
                                        StoreCall("add_mapping", "w1", function, r.id,
                                                  "Test Case", mappers["w1"].mappings,
                                                  "none", FALSE))
       ELSE UNCHANGED <<mappers, mappingFile, storeCalls>>

\* setup_all_azure_test_cases.py, lines 285-305: one pass of the loop over
\* test_cases. It calls create_test_case with the keywords title, test_steps
\* and linked_story_id, then add_mapping; an exception ends the script.
create_all_saa_test_cases(flt) ==
    /\ pc = "create"
    /\ LET r == create_test_case({"title", "test_steps", "linked_story_id"}, flt,
                                 NewWorkItemId(remoteLog), "")
       IN  /\ CreatedAndMapped(r, TestNames[cur], TRUE)
           /\ pc' = IF r.exc = "none" /\ cur < NumTests THEN "create" ELSE "script_done"
           /\ cur' = IF r.exc = "none" /\ cur < NumTests THEN cur + 1 ELSE cur
    /\ faults' = flt
    /\ UNCHANGED <<scriptIdleVars, script, client, resolved, probe>>

\* setup_azure_integration.py, lines 45-108: create_issue.
create_saa_app_work_items_issue(flt) ==
    /\ pc = "issue"
    /\ LET r == create_issue(flt, NewWorkItemId(remoteLog), "")
       IN  /\ remoteLog' = remoteLog \o r.calls
           /\ remote' = ApplyRequests(remote, r.calls, NewWorkItemId(remoteLog))
           /\ pc' = IF r.exc = "none" THEN "case" ELSE "script_done"
    /\ faults' = flt
    /\ UNCHANGED <<scriptIdleVars, storeVars, script, client, resolved, mappingFile,
                   cur, probe>>

\* setup_azure_integration.py, lines 110-210: create_test_case with the
\* keywords title, test_steps and linked_story_id, then
\* TestCaseMapper().add_mapping("test_oulu_search", ...).
create_saa_app_work_items_case(flt) ==
    /\ pc = "case"
    /\ LET r == create_test_case({"title", "test_steps", "linked_story_id"}, flt,
                                 NewWorkItemId(remoteLog), "")
       IN  CreatedAndMapped(r, "test_oulu_search",
                            TestCaseMapper_init(mappingFile).exc = "none")
    /\ pc' = "script_done"
    /\ faults' = flt
    /\ UNCHANGED <<scriptIdleVars, script, client, resolved, cur, probe>>

\* add_azure_test_cases.py, one pass of the while loop (lines 178-251): the
\* user names a test function, answers the confirmation with y, n or e, or
\* interrupts; after a creation, made with the keywords title, test_steps_xml
\* and linked_story_id, they say whether to map it and whether to go on.
add_test_cases_interactively(function, confirm, add_mapping_answer, cont, flt) ==
    /\ pc = "prompt"
    /\ Len(remoteLog) <= MaxCases
    /\ IF confirm = "y"
       THEN LET r == create_test_case({"title", "test_steps_xml", "linked_story_id"}, flt,
                                      NewWorkItemId(remoteLog), "")
            IN  /\ CreatedAndMapped(r, function, add_mapping_answer = "y")
                /\ pc' = IF r.exc = "none" /\ cont # "y" THEN "script_done" ELSE "prompt"
       ELSE /\ pc' = IF confirm = "interrupt" THEN "script_done" ELSE "prompt"
            /\ UNCHANGED <<remoteLog, remote, mappers, mappingFile, storeCalls>>
    /\ faults' = flt
    /\ UNCHANGED <<scriptIdleVars, script, client, resolved, cur, probe>>

\* A script run from the command line: the credential set or not, the
\* project taken from the defaults or from the environment, the integration
\* importable or not, over each kind of mapping file.
ScriptEnvs ==
    {e \in Envs : /\ e["AZURE_DEVOPS_ORG_URL"] = None
                  /\ e["AZURE_DEVOPS_DEFAULT_ASSIGNEE"] = None
                  /\ e["AZURE_DEVOPS_PROJECT"] # ""}

InitScripts ==
    /\ env \in ScriptEnvs
    /\ localFile = [status |-> "absent", content |-> EmptyDict]
    /\ imports \in RunImports
    /\ mappingFile \in MappingFiles
    /\ SessionIdle
    /\ pc = "script"
    /\ script = ""
    /\ mappers = [w \in Writers |-> NoMapper]
    /\ storeCalls = <<>>
    /\ remote = [i \in ExistingIds |-> Entry("Test Case", "Design")]
    /\ apiCalls = <<>>

NextScripts ==
    \/ \E which \in Scripts : run_script(which)
    \/ \E reachable \in BOOLEAN : script_test_azure_connection(reachable)
    \/ script_TestCaseMapper
    \/ \E flt \in SUBSET {"create"} : create_all_saa_test_cases(flt)
    \/ \E flt \in SUBSET {"create"} : create_saa_app_work_items_issue(flt)
    \/ \E flt \in SUBSET {"create"} : create_saa_app_work_items_case(flt)
    \/ \E function \in Tests, confirm \in {"y", "n", "e", "interrupt"},
          add_mapping_answer \in {"y", "n"}, cont \in {"y", "n"},
          flt \in SUBSET {"create"} :
          add_test_cases_interactively(function, confirm, add_mapping_answer, cont, flt)

SpecScripts == InitScripts /\ [][NextScripts]_vars

\* ------------------------------------------------- the hook, on its own
\* pytest_runtest_logreport applied to the reports its line 88 is written
\* for: reports of any phase and outcome that carry the azure_work_item_id and
\* azure_integration of the test's node, and reports of a test that has none.
HookEnv == [v \in EnvVars |-> IF v = "AZURE_DEVOPS_PAT" THEN "env_value" ELSE None]

HookClient ==
    AzureDevOpsClient_init(HookEnv, [status |-> "absent", content |-> EmptyDict], Modules,
                           [status |-> "absent", table |-> EmptyDict])

HookReports ==
    {[MakeReport(t, when, outcome, EmptyDict) EXCEPT !.attrs = a] :
        t \in Tests, when \in {"setup", "call", "teardown"}, outcome \in Outcomes,
        a \in {EmptyDict}
              \cup {[azure_work_item_id |-> i,
                     azure_integration |-> ClientObject(HookClient)] :
                       i \in Ids}}

InitHook ==
    /\ env = HookEnv
    /\ localFile = [status |-> "absent", content |-> EmptyDict]
    /\ imports = Modules
    /\ mappingFile \in {f \in MappingFiles : f.status = "ok"}
    /\ funcAttrs = [t \in Tests |-> EmptyDict]
    /\ resolved = NotResolved
    /\ client = NoClient
    /\ remoteLog = <<>>
    /\ pendingReport \in HookReports
    /\ nodeAttrs = [t \in Tests |-> IF t = pendingReport.nodeid THEN pendingReport.attrs
                                     ELSE EmptyDict]
    /\ pc = "logreport"
    /\ cur = TestIndex(pendingReport.nodeid)
    /\ ownOutcome = [t \in Tests |-> IF t = pendingReport.nodeid /\ pendingReport.when = "call"
                                     THEN pendingReport.outcome ELSE "none"]
    /\ runnerOutcome = ownOutcome
    /\ escaped = {}
    /\ log = [t \in Tests |-> {}]
    /\ faults = {}
    /\ validation = [t \in Tests |-> ""]
    /\ reported = [t \in Tests |-> {}]
    /\ probe = "not_run"
    /\ mappers = [w \in Writers |-> NoMapper]
    /\ storeCalls = <<>>
    /\ remote = [i \in ExistingIds |-> Entry("Test Case", "Design")]
    /\ apiCalls = <<>>
    /\ script = ""

NextHook == \E flt \in SUBSET FaultKinds : pytest_runtest_logreport(flt)

SpecHook == InitHook /\ [][NextHook]_vars

\* ===================================================================== claims
\* What the claims speak of, read off the state.
HasMappingEntry(t) == mappingFile.status = "ok" /\ t \in DOMAIN mappingFile.table
MappingId(t) == mappingFile.table[t].work_item_id
HasStaticAssociation(t) == HasAttr(funcAttrs[t], "azure_work_item_id")
StaticId(t) == funcAttrs[t]["azure_work_item_id"]

\* The fixture resolved an entry id for t and stored it for the hook.
ResolvedFor(t) == HasAttr(nodeAttrs[t], "azure_work_item_id")
ResolvedId(t) == nodeAttrs[t]["azure_work_item_id"]

\* The fixture got as far as looking the test up (integration active, client
\* constructed).
LookedUp(t) == log[t] \cap {"linked", "decorator_found", "no_mapping_found"} # {}

\* The hook has handled the report of t's call phase.
CallReported(t) == "call" \in reported[t]

RequestsBy(t) == {i \in DOMAIN remoteLog : remoteLog[i].caller = t}
ResultUpdates(t) ==
    {i \in RequestsBy(t) : remoteLog[i].op = "update_work_item" /\ remoteLog[i].rel = ""}
LinkRequests(t) ==
    {i \in RequestsBy(t) : remoteLog[i].op = "update_work_item" /\ remoteLog[i].rel # ""}
BugCreations(t) ==
    {i \in RequestsBy(t) : remoteLog[i].op = "create_work_item" /\ remoteLog[i].wtype = "Bug"}

\* The synchronizer's state for t, from where the fixture and the hook are:
\* an id the fixture resolved leaves the test SYNCING until the hook has entered
\* its try block (lines 93-145), which ends in DONE whatever the calls return.
SyncState(t) ==
    IF ~CallReported(t)
    THEN (IF log[t] = {} THEN "PENDING" ELSE "RESOLVING_ID")
    ELSE IF <<"logreport", t>> \in escaped THEN "RAISED"
    ELSE IF "updating" \in log[t] THEN "DONE"
    ELSE IF ResolvedFor(t) THEN "SYNCING"
    ELSE "SKIPPED_NO_MAPPING"

\* C1: once the hook has handled the call report of a FAILED test with resolved
\* entry id E, exactly one result update for E was sent, setting the state
\* Ready, and exactly one Bug was created for the test, linked to E.
C1_FailedIssuesUpdateAndBug ==
    \A t \in Tests :
        (CallReported(t) /\ ownOutcome[t] = "failed" /\ ResolvedFor(t)) =>
            /\ Cardinality({i \in ResultUpdates(t) :
                              /\ remoteLog[i].id = ResolvedId(t)
                              /\ remoteLog[i].state = "Ready"}) = 1
            /\ Cardinality(ResultUpdates(t)) = 1
            /\ Cardinality(BugCreations(t)) = 1
            /\ \A i \in BugCreations(t) :
                  remoteLog[i].ok =>
                      \E j \in LinkRequests(t) : j > i /\ remoteLog[j].target = ResolvedId(t)

\* C2: once the hook has handled the call report of a PASSED test with resolved
\* entry id E, exactly one result update for E was sent, setting the state
\* Closed, and no Bug was created for the test.
C2_PassedIssuesOneClose ==
    \A t \in Tests :
        (CallReported(t) /\ ownOutcome[t] = "passed" /\ ResolvedFor(t)) =>
            /\ Cardinality({i \in ResultUpdates(t) :
                              /\ remoteLog[i].id = ResolvedId(t)
                              /\ remoteLog[i].state = "Closed"}) = 1
            /\ Cardinality(ResultUpdates(t)) = 1
            /\ BugCreations(t) = {}

\* C3: a test with neither a mapping store entry nor a static association never
\* has a request sent on its behalf, and once its call report is handled its
\* synchronization has ended in SKIPPED_NO_MAPPING, whatever its outcome.
C3_NoMappingNoRemoteCalls ==
    \A t \in Tests :
        (~HasMappingEntry(t) /\ ~HasStaticAssociation(t)) =>
            /\ RequestsBy(t) = {}
            /\ CallReported(t) => SyncState(t) = "SKIPPED_NO_MAPPING"

C3_Witness ==
    \E t \in Tests :
        /\ ~HasMappingEntry(t) /\ ~HasStaticAssociation(t)
        /\ "no_mapping_found" \in log[t]
        /\ CallReported(t) /\ ownOutcome[t] = "failed"
        /\ SyncState(t) = "SKIPPED_NO_MAPPING"

\* C4: no exception of the fixture or of the hook reaches the runner, and the
\* outcome the runner records for a test is the one the test's own fixtures
\* and assertions produced.
C4_FailOpen ==
    /\ escaped = {}
    /\ pc # "aborted"
    /\ \A t \in Tests : runnerOutcome[t] = ownOutcome[t]

C4_Witness ==
    \E t \in Tests :
        /\ "setup_failed" \in log[t]
        /\ client.exc = "ValueError"
        /\ CallReported(t)
        /\ ownOutcome[t] = "failed" /\ runnerOutcome[t] = "failed"

C6_DynamicOverridesStatic ==
    \A t \in Tests :
        (HasMappingEntry(t) /\ HasStaticAssociation(t)) =>
            /\ LookedUp(t) => ResolvedFor(t) /\ "linked" \in log[t]
            /\ ResolvedFor(t) => ResolvedId(t) = MappingId(t)
            /\ \A i \in ResultUpdates(t) : remoteLog[i].id = MappingId(t)

C6_Witness ==
    \E t \in Tests :
        /\ HasMappingEntry(t) /\ HasStaticAssociation(t)
        /\ MappingId(t) # StaticId(t)
        /\ ResolvedFor(t) /\ ResolvedId(t) = MappingId(t)
        /\ CallReported(t)

\* C7: for a test with no mapping store entry but decorated with
\* @azure_work_item(N), the fixture's lookup resolves N.
C7_StaticAssociationResolves ==
    \A t \in Tests :
        (~HasMappingEntry(t) /\ HasStaticAssociation(t) /\ LookedUp(t)) =>
            /\ ResolvedFor(t)
            /\ ResolvedId(t) = StaticId(t)

\* C8: a result update is sent for a test only after its call phase has
\* completed, and for a test with a resolved entry id whose call report the
\* hook has handled exactly one was sent, accepted or not.
C8_UpdateExactlyOnceAfterCall ==
    \A t \in Tests :
        /\ ResultUpdates(t) # {} => ownOutcome[t] # "none"
        /\ (ResolvedFor(t) /\ CallReported(t)) => Cardinality(ResultUpdates(t)) = 1

\* ------------------------------------------------ configuration, per key
ConfigKeys == LocalKeys \cup DOMAIN _get_public_defaults
EnvVarOf(k) == CHOOSE v \in EnvVars : env_mapping[v] = k
\* The environment supplies k: its variable is set to a non-empty value.
EnvSupplies(k) ==
    /\ \E v \in EnvVars : env_mapping[v] = k
    /\ env[EnvVarOf(k)] \notin {None, ""}
\* The local file supplies k: it was read and holds the key.
FileSupplies(k) == localFile.status = "ok" /\ k \in DOMAIN localFile.content
DefaultSupplies(k) == k \in DOMAIN _get_public_defaults

ExpectedValue(k) ==
    IF EnvSupplies(k) THEN env[EnvVarOf(k)]
    ELSE IF FileSupplies(k) THEN localFile.content[k]
    ELSE IF DefaultSupplies(k) THEN _get_public_defaults[k]
    ELSE None

MissingMandatory == {k \in Range(required_fields) : ExpectedValue(k) \in {None, ""}}

C10_EnvOverFileOverDefaults ==
    resolved.status = "ok" =>
        /\ DOMAIN resolved.config =
              {k \in ConfigKeys : EnvSupplies(k) \/ FileSupplies(k) \/ DefaultSupplies(k)}
        /\ \A k \in ConfigKeys : Get(resolved.config, k) = ExpectedValue(k)

C10_Witness ==
    /\ resolved.status = "ok"
    /\ EnvSupplies("personal_access_token") /\ FileSupplies("personal_access_token")
    /\ localFile.content["personal_access_token"] = "file_value"
    /\ resolved.config["personal_access_token"] = "env_value"
    /\ ~EnvSupplies("project") /\ FileSupplies("project")
    /\ resolved.config["project"] = "file_value"
    /\ ~EnvSupplies("organization_url") /\ ~FileSupplies("organization_url")
    /\ resolved.config["organization_url"] = _get_public_defaults["organization_url"]

\* ------------------------------------------------------- the mapping store
LastStoreCall == storeCalls[Len(storeCalls)]
PrevStoreCall == storeCalls[1]
TwoStoreCalls == Len(storeCalls) = 2
AddedEntry(c) == MappingEntry(c.work_item_id, c.work_item_type)

\* C11: when add_mapping(id, X, T) returns, the file holds exactly the
\* instance's table, with id -> X of type T in it; and a load() that follows
\* the add, by the same process or another, returns a table with that entry.
C11_AddIsWrittenThrough ==
    storeCalls # <<>> =>
        /\ LastStoreCall.op = "add_mapping" =>
              /\ mappingFile.status = "ok"
              /\ mappingFile.table = mappers[LastStoreCall.w].mappings
              /\ LastStoreCall.test_function \in DOMAIN mappingFile.table
              /\ mappingFile.table[LastStoreCall.test_function] = AddedEntry(LastStoreCall)
        /\ (/\ TwoStoreCalls
            /\ PrevStoreCall.op = "add_mapping"
            /\ LastStoreCall.op = "TestCaseMapper") =>
              /\ LastStoreCall.exc = "none"
              /\ mappers[LastStoreCall.w].exc = "none"
              /\ PrevStoreCall.test_function \in DOMAIN mappers[LastStoreCall.w].mappings
              /\ mappers[LastStoreCall.w].mappings[PrevStoreCall.test_function]
                    = AddedEntry(PrevStoreCall)

C11_Witness ==
    /\ TwoStoreCalls
    /\ PrevStoreCall.op = "add_mapping" /\ LastStoreCall.op = "TestCaseMapper"
    /\ PrevStoreCall.w # LastStoreCall.w
    /\ PrevStoreCall.test_function \notin DOMAIN PrevStoreCall.before
    /\ PrevStoreCall.test_function \notin DOMAIN LastStoreCall.before
    /\ mappers[LastStoreCall.w].mappings[PrevStoreCall.test_function]
          = AddedEntry(PrevStoreCall)

\* C12: after add_mapping(id, X, T) and then add_mapping(id, Y, T) on one
\* instance, get_work_item_id(id) is Y, the table has the keys it had plus id,
\* and every other key holds what it held before the two adds.
C12_SecondAddOverwrites ==
    (/\ TwoStoreCalls
     /\ PrevStoreCall.op = "add_mapping" /\ LastStoreCall.op = "add_mapping"
     /\ PrevStoreCall.w = LastStoreCall.w
     /\ PrevStoreCall.test_function = LastStoreCall.test_function) =>
        LET table == mappers[LastStoreCall.w].mappings
            id == LastStoreCall.test_function
        IN  /\ get_work_item_id(table, id) = LastStoreCall.work_item_id
            /\ table[id] = AddedEntry(LastStoreCall)
            /\ DOMAIN table = DOMAIN PrevStoreCall.before \cup {id}
            /\ \A k \in DOMAIN table \ {id} : table[k] = PrevStoreCall.before[k]
            /\ mappingFile.table = table

C12_Witness ==
    /\ TwoStoreCalls
    /\ PrevStoreCall.op = "add_mapping" /\ LastStoreCall.op = "add_mapping"
    /\ PrevStoreCall.w = LastStoreCall.w
    /\ PrevStoreCall.test_function = LastStoreCall.test_function
    /\ PrevStoreCall.work_item_id # LastStoreCall.work_item_id
    /\ DOMAIN PrevStoreCall.before \ {LastStoreCall.test_function} # {}
    /\ get_work_item_id(mappers[LastStoreCall.w].mappings, LastStoreCall.test_function)
          = LastStoreCall.work_item_id

\* C13: load() never fails: whatever the file is, the constructor returns;
\* when the file is absent or unreadable the table is empty (after a warning
\* when it is present); and the instance can be used afterwards.
C13_LoadNeverFails ==
    (storeCalls # <<>> /\ LastStoreCall.op = "TestCaseMapper") =>
        /\ LastStoreCall.exc = "none"
        /\ mappers[LastStoreCall.w].exc = "none"
        /\ mappingFile.status # "ok" => mappers[LastStoreCall.w].mappings = EmptyDict
        /\ mappingFile.status \notin {"ok", "absent"} => _load_mappings_warns(mappingFile)

\* C14: when a process adds an entry to a table it loaded before another
\* process added one under a different key, the file afterwards lacks the
\* other process's entry: the whole file is replaced by the adder's table.
C14_StaleWriterDropsOtherEntry ==
    (/\ TwoStoreCalls
     /\ PrevStoreCall.op = "add_mapping" /\ LastStoreCall.op = "add_mapping"
     /\ PrevStoreCall.w # LastStoreCall.w
     /\ PrevStoreCall.test_function # LastStoreCall.test_function
     /\ PrevStoreCall.test_function \notin DOMAIN LastStoreCall.before) =>
        /\ PrevStoreCall.test_function \notin DOMAIN mappingFile.table
        /\ LastStoreCall.test_function \in DOMAIN mappingFile.table
        /\ PrevStoreCall.test_function \in DOMAIN mappers[PrevStoreCall.w].mappings

C14_Witness ==
    /\ TwoStoreCalls
    /\ PrevStoreCall.op = "add_mapping" /\ LastStoreCall.op = "add_mapping"
    /\ PrevStoreCall.w # LastStoreCall.w
    /\ PrevStoreCall.test_function # LastStoreCall.test_function
    /\ PrevStoreCall.before = EmptyDict /\ LastStoreCall.before = EmptyDict
    /\ DOMAIN mappingFile.table = {LastStoreCall.test_function}

\* C15: when the environment holds no credential, the synchronization path is
\* skipped for every test: no client is constructed and no configuration
\* resolved, no entry id is looked up or stored, validation prints nothing
\* and no request is sent.
C15_NoCredentialNoSync ==
    ~Truthy(env["AZURE_DEVOPS_PAT"]) =>
        /\ client = NoClient
        /\ resolved = NotResolved
        /\ remoteLog = <<>>
        /\ \A t \in Tests :
              /\ nodeAttrs[t] = EmptyDict
              /\ ~LookedUp(t)
              /\ log[t] \subseteq {"pat_not_found", "processing"}
              /\ validation[t] = ""

C15_Witness ==
    /\ ~Truthy(env["AZURE_DEVOPS_PAT"])
    /\ imports = Modules
    /\ pc = "finished"
    /\ \A t \in Tests :
          /\ HasMappingEntry(t)
          /\ "pat_not_found" \in log[t]
          /\ CallReported(t)
    /\ \E t \in Tests : ownOutcome[t] = "failed"
    /\ remoteLog = <<>>

\* --------------------------------------------------------- the client's calls
LastApiCall == apiCalls[Len(apiCalls)]
PrevApiCall == apiCalls[1]
TwoApiCalls == Len(apiCalls) = 2
\* Every entry but i is as it was when the latest call began.
OthersUntouched(i) ==
    /\ DOMAIN remote = DOMAIN LastApiCall.before
    /\ \A j \in DOMAIN remote \ {i} : remote[j] = LastApiCall.before[j]

\* C16: after update_test_result(E, outcome, detail) returns, E's state is
\* Closed for PASSED, Ready for FAILED and what it was for SKIPPED; its history
\* has detail appended when one was given and is unchanged otherwise; no
\* other entry changed. When the service rejects the update nothing changed.
C16_UpdateMapsOutcomeToState ==
    (apiCalls # <<>> /\ LastApiCall.op = "update_test_result") =>
        LET E == LastApiCall.work_item_id
            was == LastApiCall.before[E]
        IN  /\ OthersUntouched(E)
            /\ LastApiCall.exc # "none" => remote[E] = was
            /\ LastApiCall.exc = "none" =>
                  /\ LastApiCall.test_status = "PASSED" => remote[E].state = "Closed"
                  /\ LastApiCall.test_status = "FAILED" => remote[E].state = "Ready"
                  /\ LastApiCall.test_status = "SKIPPED" => remote[E].state = was.state
                  /\ remote[E].history =
                        IF LastApiCall.execution_details # NoDetail
                        THEN Append(was.history, LastApiCall.execution_details)
                        ELSE was.history

C16_Witness ==
    /\ TwoApiCalls
    /\ PrevApiCall.op = "update_test_result" /\ LastApiCall.op = "update_test_result"
    /\ PrevApiCall.work_item_id = LastApiCall.work_item_id
    /\ PrevApiCall.test_status = "FAILED" /\ PrevApiCall.exc = "none"
    /\ PrevApiCall.before[PrevApiCall.work_item_id].state = "Closed"
    /\ LastApiCall.test_status = "SKIPPED" /\ LastApiCall.exc = "none"
    /\ LastApiCall.execution_details = SomeDetail
    /\ remote[LastApiCall.work_item_id].state = "Ready"
    /\ Len(remote[LastApiCall.work_item_id].history)
          = Len(LastApiCall.before[LastApiCall.work_item_id].history) + 1

\* C17: after two accepted update_test_result(E, PASSED) in a row, E's state is
\* the state it had after the first, Closed, whatever state E started in.
C17_PassedTwiceIsPassedOnce ==
    (/\ TwoApiCalls
     /\ PrevApiCall.op = "update_test_result" /\ LastApiCall.op = "update_test_result"
     /\ PrevApiCall.test_status = "PASSED" /\ LastApiCall.test_status = "PASSED"
     /\ PrevApiCall.work_item_id = LastApiCall.work_item_id
     /\ PrevApiCall.exc = "none" /\ LastApiCall.exc = "none") =>
        /\ LastApiCall.before[LastApiCall.work_item_id].state = "Closed"
        /\ remote[LastApiCall.work_item_id].state
              = LastApiCall.before[LastApiCall.work_item_id].state

C17_Witness ==
    /\ TwoApiCalls
    /\ PrevApiCall.op = "update_test_result" /\ LastApiCall.op = "update_test_result"
    /\ PrevApiCall.test_status = "PASSED" /\ LastApiCall.test_status = "PASSED"
    /\ PrevApiCall.work_item_id = LastApiCall.work_item_id
    /\ PrevApiCall.exc = "none" /\ LastApiCall.exc = "none"
    /\ PrevApiCall.execution_details = NoDetail /\ LastApiCall.execution_details = NoDetail
    /\ PrevApiCall.before[PrevApiCall.work_item_id].state = "Ready"
    /\ remote[LastApiCall.work_item_id].state = "Closed"

\* C18: create_bug_from_test_failure sends the creation of a Bug first; given
\* a linked entry id it then, once the creation is accepted, sends one link
\* from the new Bug to that entry with kind "Tested By", and nothing else;
\* given none it sends the creation only.
C18_BugIsCreatedThenLinked ==
    (apiCalls # <<>> /\ LastApiCall.op = "create_bug_from_test_failure") =>
        LET calls == LastApiCall.calls
            linked == LastApiCall.linked_test_case_id
        IN  /\ Len(calls) >= 1
            /\ calls[1].op = "create_work_item" /\ calls[1].wtype = "Bug"
            /\ (linked # NoId /\ calls[1].ok) =>
                  /\ Len(calls) = 2
                  /\ calls[2].op = "update_work_item" /\ calls[2].rel # ""
                  /\ calls[2].id = LastApiCall.work_item_id
                  /\ calls[2].target = linked
                  /\ calls[2].comment = "Tested By"
                  /\ calls[2].ok =>
                        \E r \in remote[LastApiCall.work_item_id].relations :
                            r.target = linked
            /\ (linked = NoId \/ ~calls[1].ok) => Len(calls) = 1

C18_Witness ==
    /\ TwoApiCalls
    /\ PrevApiCall.op = "create_bug_from_test_failure"
    /\ PrevApiCall.linked_test_case_id = NoId /\ Len(PrevApiCall.calls) = 1
    /\ LastApiCall.op = "create_bug_from_test_failure"
    /\ LastApiCall.linked_test_case_id # NoId /\ LastApiCall.exc = "none"
    /\ Len(LastApiCall.calls) = 2
    /\ LastApiCall.work_item_id \in DOMAIN remote
    /\ remote[LastApiCall.work_item_id].wtype = "Bug"
    /\ remote[LastApiCall.work_item_id].relations # {}

\* The kinds the service takes as they are, and the relation each is sent as:
\* the Basic process template has the generic relation only.
ServiceRelation == [Related |-> "System.LinkTypes.Related"]
SupportedLinkTypes == DOMAIN ServiceRelation
GenericRelation == "System.LinkTypes.Related"

\* C19: link_work_items(source, target, kind) sends exactly one relation from
\* source to target: kind's own relation when the service supports kind, the
\* generic relation otherwise; the kind never makes the call fail (only the
\* service's rejection does).
C19_LinkKindIsNormalized ==
    (apiCalls # <<>> /\ LastApiCall.op = "link_work_items") =>
        LET calls == LastApiCall.calls
            kind == LastApiCall.link_type
        IN  /\ Len(calls) = 1
            /\ calls[1].op = "update_work_item"
            /\ calls[1].id = LastApiCall.work_item_id
            /\ calls[1].target = LastApiCall.linked_test_case_id
            /\ calls[1].rel = IF kind \in SupportedLinkTypes THEN ServiceRelation[kind]
                              ELSE GenericRelation
            /\ LastApiCall.exc # "none" => ~calls[1].ok /\ "link" \in faults
            /\ LastApiCall.exc = "none" =>
                  [rel |-> GenericRelation, target |-> LastApiCall.linked_test_case_id,
                   comment |-> kind] \in remote[LastApiCall.work_item_id].relations

C19_Witness ==
    /\ TwoApiCalls
    /\ PrevApiCall.op = "link_work_items" /\ LastApiCall.op = "link_work_items"
    /\ PrevApiCall.link_type = "Related" /\ PrevApiCall.exc = "none"
    /\ LastApiCall.link_type = "Duplicate" /\ LastApiCall.exc = "none"
    /\ LastApiCall.calls[1].rel = GenericRelation
    /\ remote[LastApiCall.work_item_id].relations # {}

\* --------------------------------------------------------------- the scripts
CreationRequests == {i \in DOMAIN remoteLog : remoteLog[i].op = "create_work_item"}
StoreWrites == {i \in DOMAIN storeCalls : storeCalls[i].op = "add_mapping"}

\* C20: in each batch-creation script every creation request comes after a
\* probe the service answered, and add_mapping is called only after the probe
\* returned True; when the probe returned False the script has ended, having
\* sent no creation request, constructed no mapper and written no mapping.
C20_ProbeBeforeAnyWrite ==
    script # "" =>
        /\ \A i \in CreationRequests :
              \E j \in 1..(i - 1) : remoteLog[j].op = "get_project" /\ remoteLog[j].ok
        /\ StoreWrites # {} => probe = "True"
        /\ probe # "True" =>
              /\ CreationRequests = {}
              /\ StoreWrites = {}
              /\ mappers["w1"] = NoMapper
        /\ probe = "False" => pc = "script_done"

C20_Witness ==
    /\ script = "create_saa_app_work_items"
    /\ client.exc = "none"
    /\ probe = "False"
    /\ pc = "script_done"
    /\ Len(remoteLog) = 1 /\ remoteLog[1].op = "get_project" /\ ~remoteLog[1].ok
    /\ storeCalls = <<>>

\* ------------------------------------------------- the local override file
AbsentLocalFile == [status |-> "absent", content |-> EmptyDict]

\* C21: with a local file that is present but cannot be used as a flat
\* key-value document, resolve() gives what it gives when the file is absent,
\* and so does the client's construction: the file causes no failure.
C21_MalformedLocalFileIsSkipped ==
    (probe # "not_run" /\ localFile.status \notin {"ok", "absent"}) =>
        /\ resolved = InitResolve(env, AbsentLocalFile, imports)
        /\ client = AzureDevOpsClient_init(env, AbsentLocalFile, imports, mappingFile)
        /\ resolved.status \in {"ok", "ValueError", "not_called"}

\* ------------------------------------------------ the synchronizer's states
\* C22: once the call phase of a test has been reported, its synchronization
\* has ended: it is in SKIPPED_NO_MAPPING or in DONE, not left in RESOLVING_ID
\* or SYNCING, whatever the remote calls returned.
C22_EveryInvocationTerminates ==
    \A t \in Tests :
        CallReported(t) => SyncState(t) \in {"SKIPPED_NO_MAPPING", "DONE"}

C24_SyncPathLeavesStoreAlone == [][mappingFile' = mappingFile]_vars

C24_Witness ==
    /\ pc = "finished"
    /\ \E t \in Tests : HasMappingEntry(t) /\ ResolvedFor(t) /\ CallReported(t)
    /\ \E t \in Tests : ~HasMappingEntry(t) /\ HasStaticAssociation(t) /\ CallReported(t)
    /\ \A t \in Tests : validation[t] # ""

\* ------------------------------------------------------ the URL add() stores
\* The URL of a work item under a configuration, as link_work_items builds it
\* (line 187).
CanonicalUrl(config, work_item_id) ==
    [organization_url |-> config["organization_url"], project |-> config["project"],
     id |-> work_item_id]

\* C25: the URL add_mapping stores with an entry is the canonical URL of the
\* entry id under the resolved configuration (its address and project), so
\* that configurations differing in address or project store different URLs.
C25_StoredUrlFollowsConfiguration ==
    (/\ storeCalls # <<>>
     /\ LastStoreCall.op = "add_mapping"
     /\ client.exc = "none") =>
        mappingFile.table[LastStoreCall.test_function].azure_url
            = CanonicalUrl(client.config, LastStoreCall.work_item_id)

\* ------------------------------------------------------ the batch creation
\* C26: when create_all_saa_test_cases has ended over a working connection
\* with no creation rejected, one Test Case was created for every listed test
\* function and the mapping store holds each function mapped to the id the
\* service returned for it.
C26_CreateAllCreatesAndMapsEach ==
    (/\ script = "create_all_saa_test_cases"
     /\ pc = "script_done"
     /\ probe = "True"
     /\ mappers["w1"].exc = "none"
     /\ \A i \in DOMAIN remoteLog : remoteLog[i].ok) =>
        /\ Cardinality(CreationRequests) = NumTests
        /\ \A t \in Tests :
              /\ HasMappingEntry(t)
              /\ MappingId(t) \in DOMAIN remote
              /\ remote[MappingId(t)].wtype = "Test Case"
              /\ MappingId(t) \notin ExistingIds
        /\ \A t, u \in Tests : t # u => MappingId(t) # MappingId(u)

\* --------------------------------------------- from the fixture to the hook
\* C27: the entry id and the client the fixture resolved for a test are what
\* the hook sees: once the call report of a test with resolved id E has been
\* handled, the hook passed its guard and called update_test_result with E.
C27_HookSeesWhatFixtureResolved ==
    \A t \in Tests :
        (ResolvedFor(t) /\ CallReported(t)) =>
            /\ "updating" \in log[t]
            /\ \E i \in ResultUpdates(t) : remoteLog[i].id = ResolvedId(t)

\* ------------------------------------------------------ defects and links
\* The defects the service holds that were not there before the session.
CreatedBugs == {b \in DOMAIN remote \ ExistingIds : remote[b].wtype = "Bug"}

CredentialInFileOnly ==
    /\ ~Truthy(env["AZURE_DEVOPS_PAT"])
    /\ localFile.status = "ok"
    /\ Truthy(Get(localFile.content, "personal_access_token"))

\* C29: whether a test is synchronized does not depend on the source of the
\* credential: with the credential in the local file only and the
\* integration importable, the fixture resolves the id of a mapped test as it
\* does with the credential in the environment.
C29_FileCredentialSynchronizes ==
    \A t \in Tests :
        (/\ CredentialInFileOnly
         /\ imports = Modules
         /\ HasMappingEntry(t)
         /\ log[t] # {}) =>
            /\ resolved.status = "ok"
            /\ ResolvedFor(t)
            /\ ResolvedId(t) = MappingId(t)

\* ------------------------------------------------ add() after a corrupt file
\* C30: after a load() that recovered from a corrupt mapping file by
\* returning the empty table, the next add(id, X, T) of that instance
\* overwrites the file with a table whose only entry is id -> X of type T.
C30_AddAfterCorruptLoadOverwrites ==
    (/\ TwoStoreCalls
     /\ PrevStoreCall.op = "TestCaseMapper"
     /\ PrevStoreCall.warned
     /\ LastStoreCall.op = "add_mapping"
     /\ LastStoreCall.w = PrevStoreCall.w) =>
        /\ LastStoreCall.before = EmptyDict
        /\ mappingFile.status = "ok"
        /\ DOMAIN mappingFile.table = {LastStoreCall.test_function}
        /\ mappingFile.table[LastStoreCall.test_function] = AddedEntry(LastStoreCall)

C30_Witness ==
    /\ TwoStoreCalls
    /\ PrevStoreCall.op = "TestCaseMapper"
    /\ PrevStoreCall.warned
    /\ PrevStoreCall.exc = "none"
    /\ LastStoreCall.op = "add_mapping"
    /\ LastStoreCall.w = PrevStoreCall.w
    /\ mappingFile.status = "ok"
    /\ LastStoreCall.test_function \in DOMAIN mappingFile.table
====
